---- MODULE Spec2Model ----
(***************************************************************************)
(* Model of dotenv-build: the upward file search of src/find.rs (find,     *)
(* find_internal) and the emission of cargo instructions by                *)
(* output_write_to in src/lib.rs.                                          *)
(*                                                                         *)
(* A path is the sequence of its components below the filesystem root, so  *)
(* the root is <<>>.  The filesystem is seen through the two calls the     *)
(* code makes on it: fs::metadata (the function fs, fixed during a search) *)
(* and File::open (whose outcome is decided when the call is made, so the  *)
(* file may have been removed or made unreadable since it was probed).     *)
(* The line iterator of src/iter.rs is a collaborator: each advance yields *)
(* an entry, an error, or the end of the stream.                           *)
(***************************************************************************)
EXTENDS Integers, Sequences, FiniteSets, TLC

\* ---------------------------------------------------------------- bounds
MaxDepth == 2      \* deepest directory below the root
MaxEntries == 2    \* candidates whose metadata lookup is not "NotFound"
MaxLines == 2      \* results the line iterator yields before it ends

\* ---------------------------------------------------------------- values
\* directory names; BadName stands for a component that is not valid UTF-8
BadName == "x"
Names == {"a", BadName}
Keys == {"A", "B"}
Values == {"1", "2"}

NoPath == <<"-">>
NoErr == [type |-> "none", kind |-> "none"]

\* Error::Io(io::Error) with the given kind
Io(kind) == [type |-> "Io", kind |-> kind]
\* Error::LineParse(raw line)
LineParse(raw) == [type |-> "LineParse", kind |-> raw]

Ok(p) == [tag |-> "Ok", path |-> p, err |-> NoErr]
Err(e) == [tag |-> "Err", path |-> NoPath, err |-> e]
Panic == [tag |-> "Panic", path |-> NoPath, err |-> NoErr]
Pending == [tag |-> "Pending", path |-> NoPath, err |-> NoErr]

\* Error::not_found(): an Io error whose kind is NotFound
not_found(e) == e.type = "Io" /\ e.kind = "NotFound"

\* Config::default().filename
DefaultFilename == ".env"

Dirs == UNION {[1..n -> Names] : n \in 0..MaxDepth}

\* Path::join for a relative filename
join(directory, filename) == Append(directory, filename)

\* Path::parent: None (NoPath) for the root
HasParent(directory) == Len(directory) > 0
parent(directory) == SubSeq(directory, 1, Len(directory) - 1)

\* Path::to_str: None when a component is not valid UTF-8
to_str_is_some(p) == \A i \in 1..Len(p) : p[i] # BadName

Candidates == {join(d, DefaultFilename) : d \in Dirs}

\* outcomes of fs::metadata: Ok(is_file), Ok(not a file), Err(kind)
MetaErrKinds == {"NotFound", "PermissionDenied", "Other"}

\* the filesystems considered: all lookups fail with NotFound but at most
\* MaxEntries of them
FileSystems ==
    {[c \in Candidates |-> IF c \in DOMAIN g THEN g[c] ELSE "NotFound"] :
        g \in UNION {[S -> {"file", "dir"} \cup (MetaErrKinds \ {"NotFound"})] :
                 S \in {T \in SUBSET Candidates : Cardinality(T) <= MaxEntries}}}

VARIABLES
    fs,          \* candidate -> outcome of fs::metadata
    cwd,         \* outcome of env::current_dir()
    config,      \* the Config passed to output_write_to
    pc,          \* position in output_write_to / find / find_internal
    directory,   \* argument of the current find_internal call
    probes,      \* candidates passed to fs::metadata so far, in order
    internal,    \* result of find_internal
    found,       \* result of find
    consumed,    \* results taken from the line iterator so far
    stdout,      \* lines written to the output
    ret          \* result of output_write_to

vars == <<fs, cwd, config, pc, directory, probes, internal, found,
          consumed, stdout, ret>>

Init ==
    /\ fs \in FileSystems
    /\ cwd \in {Ok(d) : d \in Dirs} \cup {Err(Io(k)) : k \in MetaErrKinds}
    /\ config \in [filename : {DefaultFilename},
                   recursive_search : BOOLEAN,
                   fail_if_missing_dotenv : BOOLEAN]
    /\ pc = "find"
    /\ directory = NoPath
    /\ probes = <<>>
    /\ internal = Pending
    /\ found = Pending
    /\ consumed = <<>>
    /\ stdout = <<>>
    /\ ret = Pending

\* ------------------------------------------------------------ find.rs
\* Faulty variants of find_internal: recursing whatever the flag says,
\* treating every metadata error as NotFound, skipping a level, accepting a
\* candidate that is not a regular file, preferring a file further up.
find_internal_ignores_flag(dir, filename, recursive) ==
    LET candidate == join(dir, filename)
        meta == fs[candidate]
    IN  IF meta = "file"
        THEN [do |-> "return", res |-> Ok(candidate)]
        ELSE IF meta \in MetaErrKinds /\ meta # "NotFound"
        THEN [do |-> "return", res |-> Err(Io(meta))]
        ELSE IF HasParent(dir)
        THEN [do |-> "recurse", res |-> Ok(parent(dir))]
        ELSE [do |-> "return", res |-> Err(Io("NotFound"))]

find_internal_masks_errors(dir, filename, recursive) ==
    LET candidate == join(dir, filename)
        meta == fs[candidate]
    IN  IF meta = "file"
        THEN [do |-> "return", res |-> Ok(candidate)]
        ELSE IF HasParent(dir) /\ recursive
        THEN [do |-> "recurse", res |-> Ok(parent(dir))]
        ELSE [do |-> "return", res |-> Err(Io("NotFound"))]

find_internal_skips_level(dir, filename, recursive) ==
    LET candidate == join(dir, filename)
        meta == fs[candidate]
    IN  IF meta = "file"
        THEN [do |-> "return", res |-> Ok(candidate)]
        ELSE IF meta \in MetaErrKinds /\ meta # "NotFound"
        THEN [do |-> "return", res |-> Err(Io(meta))]
        ELSE IF HasParent(dir) /\ recursive
        THEN [do |-> "recurse",
              res |-> Ok(IF HasParent(parent(dir)) THEN parent(parent(dir))
                         ELSE parent(dir))]
        ELSE [do |-> "return", res |-> Err(Io("NotFound"))]

find_internal_accepts_any(dir, filename, recursive) ==
    LET candidate == join(dir, filename)
        meta == fs[candidate]
    IN  IF meta \in {"file", "dir"}
        THEN [do |-> "return", res |-> Ok(candidate)]
        ELSE IF meta \in MetaErrKinds /\ meta # "NotFound"
        THEN [do |-> "return", res |-> Err(Io(meta))]
        ELSE IF HasParent(dir) /\ recursive
        THEN [do |-> "recurse", res |-> Ok(parent(dir))]
        ELSE [do |-> "return", res |-> Err(Io("NotFound"))]

find_internal_prefers_upper(dir, filename, recursive) ==
    LET candidate == join(dir, filename)
        meta == fs[candidate]
    IN  IF meta = "file"
           /\ ~(HasParent(dir) /\ recursive
                /\ fs[join(parent(dir), filename)] = "file")
        THEN [do |-> "return", res |-> Ok(candidate)]
        ELSE IF meta \in MetaErrKinds /\ meta # "NotFound"
        THEN [do |-> "return", res |-> Err(Io(meta))]
        ELSE IF HasParent(dir) /\ recursive
        THEN [do |-> "recurse", res |-> Ok(parent(dir))]
        ELSE [do |-> "return", res |-> Err(Io("NotFound"))]

\* One call of find_internal: what it does with the metadata of its
\* candidate.  "return" carries the result, "recurse" the parent.
find_internal(dir, filename, recursive) ==
    LET candidate == join(dir, filename)
        meta == fs[candidate]
    IN  IF meta = "file"
        THEN [do |-> "return", res |-> Ok(candidate)]
        ELSE IF meta \in MetaErrKinds /\ meta # "NotFound"
        THEN [do |-> "return", res |-> Err(Io(meta))]
        ELSE IF HasParent(dir) /\ recursive
        THEN [do |-> "recurse", res |-> Ok(parent(dir))]
        ELSE [do |-> "return", res |-> Err(Io("NotFound"))]

\* find: env::current_dir().map_err(Error::Io)?
find_current_dir ==
    /\ pc = "find"
    /\ IF cwd.tag = "Err"
       THEN /\ found' = cwd
            /\ pc' = "match"
            /\ UNCHANGED directory
       ELSE /\ directory' = cwd.path
            /\ pc' = "find_internal"
            /\ UNCHANGED found
    /\ UNCHANGED <<fs, cwd, config, probes, internal, consumed, stdout, ret>>

\* find: one (recursive) call of find_internal, and the `?` on its result
find_internal_call ==
    /\ pc = "find_internal"
    /\ LET step == find_internal(directory, config.filename,
                                 config.recursive_search)
       IN  /\ probes' = Append(probes, join(directory, config.filename))
           /\ IF step.do = "recurse"
              THEN /\ directory' = step.res.path
                   /\ UNCHANGED <<internal, found, pc>>
              ELSE /\ internal' = step.res
                   /\ UNCHANGED directory
                   /\ IF step.res.tag = "Ok"
                      THEN pc' = "open" /\ UNCHANGED found
                      ELSE pc' = "match" /\ found' = step.res
    /\ UNCHANGED <<fs, cwd, config, consumed, stdout, ret>>

OpenErrKinds == {"NotFound", "PermissionDenied"}

\* find: File::open(&path).map_err(Error::Io)?, then Ok((path, iter))
find_open ==
    /\ pc = "open"
    /\ \E outcome \in {"opened"} \cup OpenErrKinds :
          found' = IF outcome = "opened" THEN internal ELSE Err(Io(outcome))
    /\ pc' = "match"
    /\ UNCHANGED <<fs, cwd, config, directory, probes, internal, consumed,
                   stdout, ret>>

\* -------------------------------------------------------------- lib.rs
\* Faulty variants of on_find_error: the flag inverted, every error
\* swallowed when the flag is off.
on_find_error_inverted(err, fail_if_missing_dotenv) ==
    IF not_found(err)
    THEN IF fail_if_missing_dotenv THEN Ok(NoPath) ELSE Err(err)
    ELSE Err(err)

on_find_error_swallows(err, fail_if_missing_dotenv) ==
    IF fail_if_missing_dotenv THEN Err(err) ELSE Ok(NoPath)

\* output_write_to: the arms of `match find::find(&config)` that return
on_find_error(err, fail_if_missing_dotenv) ==
    IF not_found(err)
    THEN IF fail_if_missing_dotenv THEN Err(err) ELSE Ok(NoPath)
    ELSE Err(err)

output_write_to_match ==
    /\ pc = "match"
    /\ IF found.tag = "Ok"
       THEN pc' = "lines" /\ UNCHANGED ret
       ELSE /\ ret' = on_find_error(found.err, config.fail_if_missing_dotenv)
            /\ pc' = "done"
    /\ UNCHANGED <<fs, cwd, config, directory, probes, internal, found,
                   consumed, stdout>>

\* what the line iterator can yield
LineOk(k, v) == [ok |-> TRUE, key |-> k, value |-> v, err |-> NoErr]
LineErr(e) == [ok |-> FALSE, key |-> "", value |-> "", err |-> e]
LineErrors == {LineParse("NOVALUESEPARATOR"), Io("InvalidData")}
LineResults == {LineOk(k, v) : k \in Keys, v \in Values}
                  \cup {LineErr(e) : e \in LineErrors}

\* the pieces of the formatted lines
rustc_env(key, value) == <<"cargo:rustc-env=", key, "=", value>>
rerun_if_changed(p) == <<"cargo:rerun-if-changed=", p>>

\* error of a failed write, converted by `?`
WriteErr == Io("BrokenPipe")

\* writeln!(stdout, ...): the outputs a failed write can leave behind
FailedWrite(out, line) ==
    {out} \cup {Append(out, SubSeq(line, 1, n)) : n \in 1..(Len(line) - 1)}

\* Faulty variant of on_line: an error does not end the loop.
on_line_skips_errors(line) ==
    "write"

\* body of `for line in lines`: what is done with one result of the iterator
on_line(line) ==
    IF line.ok THEN "write" ELSE "return"

\* Faulty variant of write_entry: a key already written is dropped.
write_entry_dedup(out, key, value) ==
    IF \E i \in 1..Len(out) : Len(out[i]) >= 2 /\ out[i][2] = key
    THEN out
    ELSE Append(out, rustc_env(key, value))

\* the output after a successful writeln! of an entry
write_entry(out, key, value) == Append(out, rustc_env(key, value))

\* for line in lines { ... }: the iterator yields a result
output_write_to_line ==
    /\ pc = "lines"
    /\ Len(consumed) < MaxLines
    /\ \E line \in LineResults :
          /\ consumed' = Append(consumed, line)
          /\ IF on_line(line) = "return"
             THEN /\ ret' = Err(line.err)
                  /\ pc' = "done"
                  /\ UNCHANGED stdout
             ELSE \/ /\ stdout' = write_entry(stdout, line.key, line.value)
                     /\ UNCHANGED <<pc, ret>>
                  \/ /\ stdout' \in FailedWrite(stdout,
                                       rustc_env(line.key, line.value))
                     /\ ret' = Err(WriteErr)
                     /\ pc' = "done"
    /\ UNCHANGED <<fs, cwd, config, directory, probes, internal, found>>

\* the iterator ends; writeln!(stdout, "cargo:rerun-if-changed={}",
\* path.to_str().unwrap())?; Ok(())
output_write_to_end ==
    /\ pc = "lines"
    /\ pc' = "done"
    /\ IF ~to_str_is_some(found.path)
       THEN ret' = Panic /\ UNCHANGED stdout
       ELSE \/ /\ stdout' = Append(stdout, rerun_if_changed(found.path))
               /\ ret' = Ok(NoPath)
            \/ /\ stdout' \in FailedWrite(stdout, rerun_if_changed(found.path))
               /\ ret' = Err(WriteErr)
    /\ UNCHANGED <<fs, cwd, config, directory, probes, internal, found,
                   consumed>>

Next ==
    \/ find_current_dir
    \/ find_internal_call
    \/ find_open
    \/ output_write_to_match
    \/ output_write_to_line
    \/ output_write_to_end

Spec == Init /\ [][Next]_vars

TypeOK ==
    /\ pc \in {"find", "find_internal", "open", "match", "lines", "done"}
    /\ Len(consumed) <= MaxLines
    /\ Len(probes) <= MaxDepth + 1

\* ------------------------------------------------------- vocabulary
\* the start directory of the search, when env::current_dir() gave one
Started == cwd.tag = "Ok"
Start == cwd.path
\* the directory d levels above the start directory, and its candidate
Ancestor(d) == SubSeq(Start, 1, Len(Start) - d)
Cand(d) == Append(Ancestor(d), config.filename)
Depths == 0..Len(Start)
\* find_internal has returned
Returned == internal.tag # "Pending"
\* the candidates of levels below d hold no regular file and their metadata
\* lookups raise nothing but NotFound
ClearBelow(d) == \A e \in 0..(d - 1) : fs[Cand(e)] \in {"NotFound", "dir"}
NotFoundError == Err(Io("NotFound"))
Finished == pc = "done"
AllOk(lines) == \A i \in 1..Len(lines) : lines[i].ok
\* the cargo:rustc-env lines of the first n consumed results
EnvLines(n) ==
    [i \in 1..n |->
        <<"cargo:rustc-env=", consumed[i].key, "=", consumed[i].value>>]
\* the error of a failed write never comes from the line iterator
WriteFailed == ret = Err(WriteErr)

\* ------------------------------------------------------------ claims
\* C1 (as stated): whenever the target is a regular file at depth d above
\* the start directory, find_internal with recursive=true returns that
\* file's path, and with recursive=false returns it if d = 0 and the
\* NotFound error otherwise.
C1_AsStated ==
    (Started /\ Returned) =>
        \A d \in Depths :
            fs[Cand(d)] = "file" =>
                IF config.recursive_search \/ d = 0
                THEN internal = Ok(Cand(d))
                ELSE internal = NotFoundError

\* C1 (amended): the same, for the depth d of the nearest regular file,
\* provided no metadata lookup below d fails with an error other than
\* NotFound.
C1_NearestFile ==
    (Started /\ Returned) =>
        \A d \in Depths :
            (fs[Cand(d)] = "file" /\ ClearBelow(d)) =>
                IF config.recursive_search \/ d = 0
                THEN internal = Ok(Cand(d))
                ELSE internal = NotFoundError

C1_Witness ==
    /\ Started /\ Returned
    /\ Len(Start) = MaxDepth
    /\ fs[Cand(MaxDepth)] = "file"
    /\ ClearBelow(MaxDepth)
    /\ fs[Cand(0)] = "dir"
    /\ config.recursive_search
    /\ internal = Ok(Cand(MaxDepth))

\* C2: a metadata lookup that fails with a kind other than NotFound is the
\* last probe of the search, and find_internal returns that error as
\* Error::Io, for which not_found() is false.
C2_ErrorHaltsSearch ==
    \A i \in 1..Len(probes) :
        fs[probes[i]] \in MetaErrKinds \ {"NotFound"} =>
            /\ i = Len(probes)
            /\ internal = Err(Io(fs[probes[i]]))
            /\ ~not_found(internal.err)

C2_Witness ==
    /\ Started
    /\ Len(probes) = 2
    /\ fs[probes[2]] = "PermissionDenied"
    /\ Len(Start) = 2
    /\ fs[Cand(2)] = "file"
    /\ pc = "done"

\* C3: the probes are, in order, the candidates of the start directory and
\* of its ancestors, one per level from the start upward; nothing is probed
\* when there is no start directory, and a returned path is one of them.
C3_ProbesAreAncestorPrefix ==
    /\ ~Started => probes = <<>>
    /\ Started =>
          /\ Len(probes) <= Len(Start) + 1
          /\ \A i \in 1..Len(probes) : probes[i] = Cand(i - 1)
          /\ internal.tag = "Ok" => \E d \in Depths : internal.path = Cand(d)

C3_Witness ==
    /\ Started /\ Returned
    /\ Len(probes) = MaxDepth + 1
    /\ internal = NotFoundError
    /\ \E c \in Candidates :
          /\ fs[c] = "file"
          /\ \A d \in Depths : c # Cand(d)
          /\ Len(c) = Len(Start) + 1

\* C4: when find ends with a not-found error, output_write_to writes
\* nothing; it returns Ok(()) if fail_if_missing_dotenv is false and that
\* error if it is true.
C4_MissingFile ==
    (Finished /\ found.tag = "Err" /\ not_found(found.err)) =>
        /\ stdout = <<>>
        /\ ret = IF config.fail_if_missing_dotenv
                 THEN Err(found.err) ELSE Ok(NoPath)

C4_Witness ==
    /\ Finished
    /\ found = NotFoundError
    /\ Len(probes) = MaxDepth + 1
    /\ config.fail_if_missing_dotenv
    /\ ret = NotFoundError

C6_StopsAtFirstError ==
    \A i \in 1..Len(consumed) :
        ~consumed[i].ok =>
            /\ i = Len(consumed)
            /\ Finished
            /\ ret = Err(consumed[i].err)
            /\ stdout = EnvLines(i - 1)

C6_Witness ==
    /\ Len(consumed) = 2
    /\ consumed[1].ok
    /\ ~consumed[2].ok
    /\ Len(stdout) = 1
    /\ ret = Err(LineParse("NOVALUESEPARATOR"))

\* C7: an error other than "does not exist" from env::current_dir, from a
\* metadata lookup or from File::open is the result of output_write_to,
\* whatever fail_if_missing_dotenv is.
C7_IoErrorsSurface ==
    Finished =>
        /\ (cwd.tag = "Err" /\ ~not_found(cwd.err)) => ret = cwd
        /\ \A i \in 1..Len(probes) :
              fs[probes[i]] \in MetaErrKinds \ {"NotFound"} =>
                  ret = Err(Io(fs[probes[i]]))
        /\ (internal.tag = "Ok" /\ found.tag = "Err" /\ ~not_found(found.err))
              => ret = found

C7_Witness ==
    /\ Finished
    /\ ~config.fail_if_missing_dotenv
    /\ internal.tag = "Ok"
    /\ found = Err(Io("PermissionDenied"))
    /\ ret = found

\* C8: find ends in an error for which not_found() is true only when no
\* probe found the candidate to be a regular file.
C8_NotFoundOnlyWithoutFile ==
    (found.tag = "Err" /\ not_found(found.err)) =>
        \A i \in 1..Len(probes) : fs[probes[i]] # "file"

\* C9: a call of find_internal whose candidate exists but is not a regular
\* file continues at the parent when recursive is true and a parent exists,
\* and otherwise returns the NotFound error.
C9_NonFileIsNotFound ==
    [][(pc = "find_internal" /\ fs[Append(directory, config.filename)] = "dir")
        => IF config.recursive_search /\ directory # <<>>
           THEN /\ pc' = "find_internal"
                /\ directory' = SubSeq(directory, 1, Len(directory) - 1)
                /\ internal' = Pending
           ELSE internal' = NotFoundError]_vars

C9_Witness ==
    /\ Started /\ Returned
    /\ Len(probes) = 2
    /\ fs[probes[1]] = "dir"
    /\ fs[probes[2]] = "dir"
    /\ internal = NotFoundError

\* C10: a probe that finds a regular file is the last one, and the path
\* returned is the candidate of the nearest level that holds a regular
\* file.
C10_NearestFileWins ==
    /\ \A i \in 1..Len(probes) :
          fs[probes[i]] = "file" =>
              i = Len(probes) /\ internal = Ok(probes[i])
    /\ (Started /\ internal.tag = "Ok") =>
          \E d \in Depths :
              /\ internal.path = Cand(d)
              /\ fs[Cand(d)] = "file"
              /\ \A e \in 0..(d - 1) : fs[Cand(e)] # "file"
              /\ Len(probes) = d + 1

C10_Witness ==
    /\ Started
    /\ Len(Start) = 2
    /\ fs[Cand(1)] = "file"
    /\ fs[Cand(2)] = "file"
    /\ internal = Ok(Cand(1))
    /\ Len(probes) = 2
====
